---------------------------- MODULE Spec2Model ----------------------------
(***************************************************************************)
(* Model of the statistics pipeline of anomalytest.py: data preparation    *)
(* (derived ASP / CPO), per-retailer z-scores and flags, issue labelling   *)
(* and fix suggestion, sidebar filtering, the drilldown table with its CSV *)
(* export, and the rolling mean / MAD anomaly smoother.                    *)
(*                                                                         *)
(* Numbers are exact rationals num/den.  A z-score (value - mean)/std is   *)
(* in general irrational; it is kept exactly as dev / sqrt(var), and every *)
(* comparison on it is done on integers.  Python strings that the code     *)
(* builds or searches are sequences of one-character strings.              *)
(***************************************************************************)
EXTENDS Integers, Sequences, FiniteSets, TLC

VARIABLES pc, sheet, df, cols, flagged, f, fcols, table3, csv, ma_df

vars == <<pc, sheet, df, cols, flagged, f, fcols, table3, csv, ma_df>>

---------------------------------------------------------------------------
(* Values *)

\* Python's None
None == "None"

\* a non-missing number num/den (den > 0)
Rat(n, d) == [nan |-> FALSE, num |-> n, den |-> d]

\* np.nan / NaT: a missing number or date
NaN == [nan |-> TRUE, num |-> 0, den |-> 1]

IsNaN(c) == c.nan

Abs(x) == IF x < 0 THEN -x ELSE x

Max(a, b) == IF a >= b THEN a ELSE b

RECURSIVE Gcd(_, _)
Gcd(a, b) == IF b = 0 THEN a ELSE Gcd(b, a % b)

Lcm(a, b) == (a * b) \div Gcd(a, b)

\* the index set of a sequence
Idx(s) == 1..Len(s)

\* [g(x) for x in s]
Map(s, g(_)) == [i \in Idx(s) |-> g(s[i])]

\* the fold of op over the sequence s, from the left
RECURSIVE Fold(_, _, _)
Fold(op(_, _), acc, s) ==
    IF s = <<>> THEN acc ELSE Fold(op, op(acc, Head(s)), Tail(s))

---------------------------------------------------------------------------
(* Strings as character sequences *)

\* needle in hay (Python's substring test)
Contains(hay, needle) ==
    \E i \in 0..(Len(hay) - Len(needle)) :
        \A j \in Idx(needle) : hay[i + j] = needle[j]

\* sep.join(parts)
RECURSIVE Join(_, _)
Join(sep, parts) ==
    IF parts = <<>> THEN <<>>
    ELSE IF Len(parts) = 1 THEN parts[1]
    ELSE parts[1] \o sep \o Join(sep, Tail(parts))

\* the five tracked metrics, in declaration order
metric_cols == <<"CTR", "CVR", "Revenue", "ASP", "CPO">>

\* the characters of each metric's name
MetricName ==
    [CTR |-> <<"C", "T", "R">>,
     CVR |-> <<"C", "V", "R">>,
     Revenue |-> <<"R", "e", "v", "e", "n", "u", "e">>,
     ASP |-> <<"A", "S", "P">>,
     CPO |-> <<"C", "P", "O">>]

\* f"{col}_z"
ZCol == [CTR |-> "CTR_z", CVR |-> "CVR_z", Revenue |-> "Revenue_z",
         ASP |-> "ASP_z", CPO |-> "CPO_z"]

\* f"{col}_flag"
FlagCol == [CTR |-> "CTR_flag", CVR |-> "CVR_flag", Revenue |-> "Revenue_flag",
            ASP |-> "ASP_flag", CPO |-> "CPO_flag"]

---------------------------------------------------------------------------
(* Issue labelling and suggested fixes *)

\* the token of one metric: f"{m}+" if the flag is High, else f"{m}-"
Token(row, m) ==
    IF row[FlagCol[m]] = "High" THEN MetricName[m] \o <<"+">>
    ELSE MetricName[m] \o <<"-">>

\* the tokens of the metrics whose flag is truthy, in metric_cols order
RECURSIVE IssueTokens(_, _)
IssueTokens(row, ms) ==
    IF ms = <<>> THEN <<>>
    ELSE IF row[FlagCol[Head(ms)]] # None
         THEN <<Token(row, Head(ms))>> \o IssueTokens(row, Tail(ms))
         ELSE IssueTokens(row, Tail(ms))

\* a labelling that lists the tokens in the reverse of the metric order
label_issues_reversed(row) ==
    Join(<<",", " ">>, IssueTokens(row, <<"CPO", "ASP", "Revenue", "CVR", "CTR">>))

label_issues(row) == Join(<<",", " ">>, IssueTokens(row, metric_cols))

Fix1 == "High engagement, low conversion. Check targeting."
Fix2 == "High pricing/cost inefficiency. Consider promo adjustments."
Fix3 == "Poor engagement. Refresh creative."
Fix4 == "Low conversion. Audit checkout or product appeal."
Fix5 == "Check channel-level strategy."

Tok(m, sign) == MetricName[m] \o <<sign>>

\* a rule list with the single-metric rules ahead of the two-metric rules
suggest_fix_reordered(issues) ==
    IF issues = <<>> THEN None
    ELSE IF Contains(issues, Tok("CTR", "-")) THEN Fix3
    ELSE IF Contains(issues, Tok("CVR", "-")) THEN Fix4
    ELSE IF Contains(issues, Tok("CTR", "+")) /\ Contains(issues, Tok("Revenue", "-"))
         THEN Fix1
    ELSE IF Contains(issues, Tok("ASP", "+")) /\ Contains(issues, Tok("CPO", "+"))
         THEN Fix2
    ELSE Fix5

\* the rules of lines 66-71, the first that matches wins
suggest_fix(issues) ==
    IF issues = <<>> THEN None
    ELSE IF Contains(issues, Tok("CTR", "+")) /\ Contains(issues, Tok("Revenue", "-"))
         THEN Fix1
    ELSE IF Contains(issues, Tok("ASP", "+")) /\ Contains(issues, Tok("CPO", "+"))
         THEN Fix2
    ELSE IF Contains(issues, Tok("CTR", "-")) THEN Fix3
    ELSE IF Contains(issues, Tok("CVR", "-")) THEN Fix4
    ELSE Fix5

---------------------------------------------------------------------------
(* Exact arithmetic on the numbers num/den *)

\* num/den in lowest terms with den > 0
Norm(n, d) ==
    LET g == Gcd(Abs(n), Abs(d))
        s == IF d < 0 THEN -1 ELSE 1
    IN  Rat((s * n) \div g, (s * d) \div g)

\* the operations cancel common factors before they multiply
RAdd(a, b) ==
    LET l == Lcm(a.den, b.den)
    IN  Norm(a.num * (l \div a.den) + b.num * (l \div b.den), l)

RSub(a, b) ==
    LET l == Lcm(a.den, b.den)
    IN  Norm(a.num * (l \div a.den) - b.num * (l \div b.den), l)

RMul(a, b) ==
    LET g1 == Max(1, Gcd(Abs(a.num), b.den))
        g2 == Max(1, Gcd(Abs(b.num), a.den))
    IN  Norm((a.num \div g1) * (b.num \div g2), (a.den \div g2) * (b.den \div g1))

\* a / b for b # 0
RDiv(a, b) ==
    IF b.num < 0 THEN RMul(a, Rat(-b.den, -b.num)) ELSE RMul(a, Rat(b.den, b.num))

RLess(a, b) ==
    LET l == Lcm(a.den, b.den)
    IN  a.num * (l \div a.den) < b.num * (l \div b.den)

RSum(s) == Fold(RAdd, Rat(0, 1), s)

RSquare(a) == RMul(a, a)

---------------------------------------------------------------------------
(* Data preparation *)

\* the columns of the Calcs sheet
SheetCols ==
    <<"Date", "Retailer", "Line Item", "CTR", "CVR", "Revenue", "Costs", "Orders">>

\* a missing Line Item cell
NoItem == <<None>>

\* pd.to_datetime(cell, errors="coerce"): an unparsable date becomes NaT
to_datetime(c) == IF c.parsable THEN Rat(c.day, 1) ELSE NaN

\* whether the cell of column col is missing in row
IsNull(row, col) ==
    CASE col = "Retailer" -> row[col] = None
      [] col = "Line Item" -> row[col] = NoItem
      [] OTHER -> IsNaN(row[col])

\* df.dropna(subset=...): the rows with no missing cell in the subset
DropnaSubset == <<"CTR", "CVR", "Revenue", "Costs", "Orders", "Retailer", "Line Item", "Date">>

dropna(rows, subset) ==
    SelectSeq(rows, LAMBDA row : \A i \in Idx(subset) : ~IsNull(row, subset[i]))

\* an ASP that is 0, not missing, for a row with no order
ASPZeroFill(x) ==
    IF x["Orders"].num > 0 THEN RDiv(x["Revenue"], x["Orders"]) ELSE Rat(0, 1)

\* x["Revenue"] / x["Orders"] if x["Orders"] > 0 else np.nan
ASP(x) == IF x["Orders"].num > 0 THEN RDiv(x["Revenue"], x["Orders"]) ELSE NaN

\* x["Costs"] / x["Orders"] if x["Orders"] > 0 else np.nan
CPO(x) == IF x["Orders"].num > 0 THEN RDiv(x["Costs"], x["Orders"]) ELSE NaN

\* row with the cell of column col set to v (the column is added if new)
With(row, col, v) == (col :> v) @@ row

\* lines 41-44 on the rows of the sheet
Prepared(rows) ==
    LET dated == Map(rows, LAMBDA r : With(r, "Date", to_datetime(r["Date"])))
        kept  == dropna(dated, DropnaSubset)
        a     == Map(kept, LAMBDA r : With(r, "ASP", ASP(r)))
    IN  Map(a, LAMBDA r : With(r, "CPO", CPO(r)))

---------------------------------------------------------------------------
(* Z-scores *)

\* the non-missing cells of a column
NotNa(cells) == SelectSeq(cells, LAMBDA c : ~IsNaN(c))

\* Series.mean(): the mean of the non-missing cells, NaN if there is none
Mean(cells) ==
    LET v == NotNa(cells)
    IN  IF Len(v) = 0 THEN NaN ELSE RDiv(RSum(v), Rat(Len(v), 1))

\* the divisor correction of the population deviation
DdofPopulation == 1 - 1

\* the divisor correction of Series.std(): ddof = 1, the sample deviation
Ddof == 1

\* Series.var(): sum((mean - v)^2) / (count - ddof) over the non-missing
\* cells, NaN if count <= ddof
Var(cells) ==
    LET v   == NotNa(cells)
        avg == Mean(cells)
        sqr == Map(v, LAMBDA c : RSquare(RSub(avg, c)))
    IN  IF Len(v) <= Ddof THEN NaN
        ELSE RDiv(RSum(sqr), Rat(Len(v) - Ddof, 1))

\* a z-score dev / sqrt(var); kind tells the IEEE outcome of the division
ZNaN == [kind |-> "nan", dev |-> Rat(0, 1), var |-> Rat(0, 1)]

\* a z-score that is 0, not undefined, where the deviation is 0
ZScoreZeroFill(value, mean, var) ==
    IF IsNaN(value) \/ IsNaN(mean) \/ IsNaN(var) THEN ZNaN
    ELSE [kind |-> "fin", dev |-> RSub(value, mean), var |-> var]

\* (value - mean) / std, std being sqrt(var)
ZScore(value, mean, var) ==
    IF IsNaN(value) \/ IsNaN(mean) \/ IsNaN(var) THEN ZNaN
    ELSE LET dev == RSub(value, mean)
         IN  IF var.num = 0
             THEN IF dev.num = 0 THEN ZNaN
                  ELSE [kind |-> IF dev.num > 0 THEN "+inf" ELSE "-inf",
                        dev |-> dev, var |-> var]
             ELSE [kind |-> "fin", dev |-> dev, var |-> var]

\* z > t for an integer t >= 0: dev > 0 and dev^2 / var > t^2
ZGreater(z, t) ==
    \/ z.kind = "+inf"
    \/ /\ z.kind = "fin"
       /\ z.dev.num > 0
       /\ RLess(Rat(t * t, 1), RDiv(RSquare(z.dev), z.var))

\* z < -t for an integer t >= 0
ZLess(z, t) ==
    \/ z.kind = "-inf"
    \/ /\ z.kind = "fin"
       /\ z.dev.num < 0
       /\ RLess(Rat(t * t, 1), RDiv(RSquare(z.dev), z.var))

\* the threshold of the flags, in standard deviations
ZThreshold == 2

\* "High" if z >= 2 else "Low" if z <= -2 else None
FlagNonStrict(z) ==
    LET atLeast == /\ z.kind = "fin"
                   /\ ~RLess(RDiv(RSquare(z.dev), z.var), Rat(ZThreshold * ZThreshold, 1))
    IN  IF z.kind = "+inf" \/ (atLeast /\ z.dev.num > 0) THEN "High"
        ELSE IF z.kind = "-inf" \/ (atLeast /\ z.dev.num < 0) THEN "Low"
        ELSE None

\* "High" if z > 2 else "Low" if z < -2 else None
Flag(z) ==
    IF ZGreater(z, ZThreshold) THEN "High"
    ELSE IF ZLess(z, ZThreshold) THEN "Low"
    ELSE None

\* the cells of column col of the rows
Column(rows, col) == Map(rows, LAMBDA r : r[col])

\* one pass of the loop over metric_cols on the group g
GroupMetric(g, col) ==
    LET mean == Mean(Column(g, col))
        var  == Var(Column(g, col))
        z    == Map(g, LAMBDA r : With(r, ZCol[col], ZScore(r[col], mean, var)))
    IN  Map(z, LAMBDA r : With(r, FlagCol[col], Flag(r[ZCol[col]])))

\* the retailers a sheet may name, in sorted order
Retailers == <<"A", "B">>

\* one group with every row, whatever its retailer
GroupsUnpartitioned(data) == <<data>>

\* the groups of data.groupby("Retailer"): one per retailer present, in
\* sorted key order, each with its rows in their original order
Groups(data) ==
    LET all == Map(Retailers,
                   LAMBDA r : SelectSeq(data, LAMBDA row : row["Retailer"] = r))
    IN  SelectSeq(all, LAMBDA g : g # <<>>)

Concat(a, b) == a \o b

\* detect_outliers(data) for a data with at least one row
detect_outliers(data) ==
    LET chunks == Map(Groups(data), LAMBDA g : Fold(GroupMetric, g, metric_cols))
    IN  Fold(Concat, <<>>, chunks)

\* the columns detect_outliers adds, in order
RECURSIVE ZFlagCols(_)
ZFlagCols(ms) ==
    IF ms = <<>> THEN <<>>
    ELSE <<ZCol[Head(ms)], FlagCol[Head(ms)]>> \o ZFlagCols(Tail(ms))

---------------------------------------------------------------------------
(* Sidebar filters *)

\* Series.unique(): the distinct cells in order of first appearance
RECURSIVE Unique(_)
Unique(s) ==
    IF s = <<>> THEN <<>>
    ELSE LET u == Unique(SubSeq(s, 1, Len(s) - 1))
             x == s[Len(s)]
         IN  IF \E i \in Idx(u) : u[i] = x THEN u ELSE Append(u, x)

Range(s) == {s[i] : i \in Idx(s)}

\* str.lower() on one character
LowerOf == ("A" :> "a") @@ ("D" :> "d") @@ ("T" :> "t") @@ ("V" :> "v")

Lower(s) == Map(s, LAMBDA c : IF c \in DOMAIN LowerOf THEN LowerOf[c] ELSE c)

\* s[:n]
Take(s, n) == SubSeq(s, 1, IF n < Len(s) THEN n ELSE Len(s))

\* lines 86-91: the flagged rows that pass the four filters
Filtered(rows, retailers, date_range, metric_focus, search) ==
    LET f1 == SelectSeq(rows, LAMBDA r :
                  /\ r["Retailer"] \in retailers
                  /\ ~RLess(r["Date"], Rat(date_range[1], 1))
                  /\ ~RLess(Rat(date_range[2], 1), r["Date"]))
        f2 == IF metric_focus # "All"
              THEN SelectSeq(f1, LAMBDA r :
                       Contains(r["Broken_Metrics"], Take(MetricName[metric_focus], 3)))
              ELSE f1
    IN  IF search # <<>>
        THEN SelectSeq(f2, LAMBDA r : Contains(Lower(r["Line Item"]), Lower(search)))
        ELSE f2

---------------------------------------------------------------------------
(* Tab 1: issue combinations *)

\* the code point of a character of an issue signature
Ord ==
    ("+" :> 43) @@ ("-" :> 45) @@ ("A" :> 65) @@ ("C" :> 67) @@ ("O" :> 79) @@
    ("P" :> 80) @@ ("R" :> 82) @@ ("S" :> 83) @@ ("T" :> 84) @@ ("V" :> 86) @@
    ("e" :> 101) @@ ("n" :> 110) @@ ("u" :> 117) @@ ("v" :> 118)

\* a < b for Python strings
RECURSIVE StrLess(_, _)
StrLess(a, b) ==
    IF b = <<>> THEN FALSE
    ELSE IF a = <<>> THEN TRUE
    ELSE IF Ord[Head(a)] # Ord[Head(b)] THEN Ord[Head(a)] < Ord[Head(b)]
    ELSE StrLess(Tail(a), Tail(b))

\* s.split(", ")
RECURSIVE Split(_, _)
Split(s, cur) ==
    IF s = <<>> THEN <<cur>>
    ELSE IF Len(s) >= 2 /\ s[1] = "," /\ s[2] = " "
         THEN <<cur>> \o Split(SubSeq(s, 3, Len(s)), <<>>)
         ELSE Split(Tail(s), Append(cur, Head(s)))

\* sorted(set(parts)) for strings
RECURSIVE SortedSet(_)
SortedSet(S) ==
    IF S = {} THEN <<>>
    ELSE LET m == CHOOSE x \in S : \A y \in S \ {x} : StrLess(x, y)
         IN  <<m>> \o SortedSet(S \ {m})

\* combo_counts(vals) for a non-missing vals
combo_counts(vals) == Join(<<",", " ">>, SortedSet(Range(Split(vals, <<>>))))

---------------------------------------------------------------------------
(* Tab 3: drilldown table and CSV export *)

\* the columns of the drilldown table
DrillCols ==
    <<"Date", "Retailer", "Line Item", "Broken_Metrics", "Suggested_Fix",
      "CTR", "CVR", "ASP", "CPO", "Revenue">>

\* frame[columns]: the cells of each row in the order of the columns
Project(rows, columns) ==
    [header |-> columns,
     rows   |-> Map(rows, LAMBDA r : [i \in Idx(columns) |-> r[columns[i]]])]

\* frame.to_csv(index=False): a header line with every column of the frame,
\* then one line per row
to_csv(rows, columns) == Project(rows, columns)

NoTable == [header |-> <<>>, rows |-> <<>>]

---------------------------------------------------------------------------
(* Tab 4: rolling mean, rolling MAD, anomalies *)

\* a window of 6 points
WindowSix == 7 - 1

\* rolling(window=7)
Window == 7

\* the orders sort_values("Date") may give: ascending dates, rows of equal
\* date in any order (the default sort is not stable)
RECURSIVE SortedOrders(_)
SortedOrders(rows) ==
    IF rows = <<>> THEN {<<>>}
    ELSE LET first == {r \in Range(rows) :
                          \A j \in Idx(rows) : ~RLess(rows[j]["Date"], r["Date"])}
             At(r) == CHOOSE i \in Idx(rows) : rows[i] = r
             Without(i) == [k \in 1..(Len(rows) - 1) |->
                               IF k < i THEN rows[k] ELSE rows[k + 1]]
         IN  UNION {{<<r>> \o t : t \in SortedOrders(Without(At(r)))} : r \in first}

\* the numbers of xs in ascending order
RECURSIVE SortNums(_)
SortNums(xs) ==
    IF xs = <<>> THEN <<>>
    ELSE LET i == CHOOSE i \in Idx(xs) : \A j \in Idx(xs) : ~RLess(xs[j], xs[i])
             rest == [k \in 1..(Len(xs) - 1) |-> IF k < i THEN xs[k] ELSE xs[k + 1]]
         IN  <<xs[i]>> \o SortNums(rest)

\* np.median
Median(xs) ==
    LET s == SortNums(xs)
        n == Len(s)
    IN  IF n % 2 = 1 THEN s[(n + 1) \div 2]
        ELSE RDiv(RAdd(s[n \div 2], s[n \div 2 + 1]), Rat(2, 1))

RAbs(a) == Rat(Abs(a.num), a.den)

\* np.median(np.abs(x - np.median(x)))
Mad(xs) ==
    LET m == Median(xs)
    IN  Median(Map(xs, LAMBDA x : RAbs(RSub(x, m))))

\* the window ending at point i, NaN-padded statistics before Window points
WindowAt(xs, i) == SubSeq(xs, i - Window + 1, i)

RollingMean(xs, i) ==
    IF i < Window THEN NaN ELSE RDiv(RSum(WindowAt(xs, i)), Rat(Window, 1))

RollingMad(xs, i) == IF i < Window THEN NaN ELSE Mad(WindowAt(xs, i))

\* the multiple of the rolling MAD a point must deviate by
MadFactor == 3

\* abs(x - MA) >= 3 * MAD
IsAnomalyNonStrict(x, ma, mad) ==
    IF IsNaN(ma) \/ IsNaN(mad) THEN FALSE
    ELSE ~RLess(RAbs(RSub(x, ma)), RMul(Rat(MadFactor, 1), mad))

\* abs(x - MA) > 3 * MAD; a comparison with NaN is False
IsAnomaly(x, ma, mad) ==
    IF IsNaN(ma) \/ IsNaN(mad) THEN FALSE
    ELSE RLess(RMul(Rat(MadFactor, 1), mad), RAbs(RSub(x, ma)))

\* lines 141-144 on the sorted rows
Smoothed(sorted, selected_metric) ==
    LET kept == SelectSeq(sorted, LAMBDA r :
                    ~IsNaN(r["Date"]) /\ ~IsNaN(r[selected_metric]))
        xs   == Column(kept, selected_metric)
    IN  [i \in Idx(kept) |->
            [Date    |-> kept[i]["Date"],
             x       |-> xs[i],
             MA      |-> RollingMean(xs, i),
             MAD     |-> RollingMad(xs, i),
             Anomaly |-> IsAnomaly(xs[i], RollingMean(xs, i), RollingMad(xs, i))]]

NoSeries == [metric |-> None, rows |-> <<>>]

---------------------------------------------------------------------------
(* The run of the script on an uploaded sheet *)

\* lines 41-44: parse the dates, drop the incomplete rows, derive ASP and CPO.
\* On a frame left with no row, df.apply(..., axis=1) gives a frame, not a
\* column: depending on the pandas version the assignment of line 43 raises
\* or the run goes on to line 57
DataPrep ==
    /\ pc = "uploaded"
    /\ df' = Prepared(sheet)
    /\ \/ /\ pc' = "prepared"
          /\ cols' = SheetCols \o <<"ASP", "CPO">>
       \/ /\ df' = <<>>
          /\ pc' = "error"
          /\ cols' = SheetCols
    /\ UNCHANGED <<sheet, flagged, f, fcols, table3, csv, ma_df>>

\* lines 47-59: df = detect_outliers(df); pd.concat raises on a frame with
\* no row (no group, so nothing to concatenate) and the run ends there
DetectOutliers ==
    /\ pc = "prepared"
    /\ IF df = <<>>
       THEN /\ pc' = "error"
            /\ UNCHANGED <<df, cols>>
       ELSE /\ df' = detect_outliers(df)
            /\ cols' = cols \o ZFlagCols(metric_cols)
            /\ pc' = "detected"
    /\ UNCHANGED <<sheet, flagged, f, fcols, table3, csv, ma_df>>

\* lines 73-75 on one row
Labelled(row) ==
    LET a == With(row, "Broken_Metrics", label_issues(row))
        b == With(a, "Needs_Review", a["Broken_Metrics"] # <<>>)
    IN  With(b, "Suggested_Fix", suggest_fix(b["Broken_Metrics"]))

\* lines 73-77: Broken_Metrics, Needs_Review, Suggested_Fix and flagged
LabelIssues ==
    /\ pc = "detected"
    /\ df' = Map(df, Labelled)
    /\ cols' = cols \o <<"Broken_Metrics", "Needs_Review", "Suggested_Fix">>
    /\ flagged' = SelectSeq(df', LAMBDA r : r["Needs_Review"] = TRUE)
    /\ pc' = "labelled"
    /\ UNCHANGED <<sheet, f, fcols, table3, csv, ma_df>>

\* lines 81-91 with the given widget values
Filter(retailers, date_range, metric_focus, search) ==
    /\ pc = "labelled"
    /\ f' = Filtered(flagged, retailers, date_range, metric_focus, search)
    /\ fcols' = cols
    /\ pc' = "filtered"
    /\ UNCHANGED <<sheet, df, cols, flagged, table3, csv, ma_df>>

\* the days of the date cells of the rows
Days(rows) == {rows[i]["Date"].num : i \in Idx(rows)}

\* the searches typed into the Line Item Search box
Searches == {<<>>, <<"t", "v">>, <<"A", "d">>}

\* the sidebar with any widget values
FilterAny ==
    /\ pc = "labelled"
    /\ \E retailers \in SUBSET Range(Unique(Column(df, "Retailer"))),
          d0 \in Days(df), d1 \in Days(df),
          metric_focus \in {"All"} \cup Range(metric_cols),
          search \in Searches :
           /\ d0 <= d1
           /\ Filter(retailers, <<d0, d1>>, metric_focus, search)

Min(S) == CHOOSE x \in S : \A y \in S : x <= y

MaxOf(S) == CHOOSE x \in S : \A y \in S : x >= y

\* the sidebar as it first renders: every retailer, the whole date range,
\* all metrics, no search
FilterDefault ==
    /\ pc = "labelled"
    /\ Filter(Range(Unique(Column(df, "Retailer"))),
              <<Min(Days(df)), MaxOf(Days(df))>>, "All", <<>>)

\* lines 108-111: the Issue Combo column of f
Tab1 ==
    /\ pc = "filtered"
    /\ f' = Map(f, LAMBDA r : With(r, "Issue Combo", combo_counts(r["Broken_Metrics"])))
    /\ fcols' = IF \E i \in Idx(fcols) : fcols[i] = "Issue Combo"
                THEN fcols ELSE Append(fcols, "Issue Combo")
    /\ pc' = "tab1"
    /\ UNCHANGED <<sheet, df, cols, flagged, table3, csv, ma_df>>

\* lines 132-135: the drilldown table and the data of the download button
Tab3 ==
    /\ pc = "tab1"
    /\ table3' = Project(f, DrillCols)
    /\ csv' = to_csv(f, fcols)
    /\ pc' = "tab3"
    /\ UNCHANGED <<sheet, df, cols, flagged, f, fcols, ma_df>>

\* lines 137-144: the smoothed series of the selected metric
Tab4 ==
    /\ pc = "tab3"
    /\ \E selected_metric \in Range(metric_cols), sorted \in SortedOrders(df) :
          ma_df' = [metric |-> selected_metric,
                    rows   |-> Smoothed(sorted, selected_metric)]
    /\ pc' = "done"
    /\ UNCHANGED <<sheet, df, cols, flagged, f, fcols, table3, csv>>

\* the state when the sheet has been read
Uploaded(sheets) ==
    /\ sheet \in sheets
    /\ pc = "uploaded"
    /\ df = sheet
    /\ cols = SheetCols
    /\ flagged = <<>>
    /\ f = <<>>
    /\ fcols = <<>>
    /\ table3 = NoTable
    /\ csv = NoTable
    /\ ma_df = NoSeries

---------------------------------------------------------------------------
(* The sheets the runs are checked on *)

\* a date cell of the sheet that parses to the given day
DateCell(day) == [parsable |-> TRUE, day |-> day]

\* a date cell of the sheet that does not parse
BadDate == [parsable |-> FALSE, day |-> 0]

TV == <<"T", "V">>

Ad == <<"A", "d">>

\* a complete row of the Calcs sheet
SheetRow(day, retailer, item, ctr, cvr, rev, costs, orders) ==
    ("Line Item" :> item) @@
    [Date |-> DateCell(day), Retailer |-> retailer,
     CTR |-> Rat(ctr, 1), CVR |-> Rat(cvr, 1), Revenue |-> Rat(rev, 1),
     Costs |-> Rat(costs, 1), Orders |-> Rat(orders, 1)]

\* the number of identical rows of a block
BaseLen == 5

\* the free rows of a mixed sheet
MaxFree == 2

\* the rows of a small sheet
MaxRows == 3

\* the points of a series
MaxSeries == 7

\* the row a block repeats: CTR 1, CVR 1, ASP 1, CPO 1
BaseRow == SheetRow(1, "A", TV, 1, 1, 4, 4, 4)

Block == [i \in 1..BaseLen |-> BaseRow]

\* one more row of the block's retailer: each metric below, at or above the
\* block's
OutlierRows ==
    {SheetRow(2, "A", Ad, ctr, cvr, rev, costs, orders) :
        ctr \in {0, 1, 2}, cvr \in {0, 1, 2},
        rev \in {2, 4, 8}, costs \in {0, 1, 2, 4, 8, 16, 32},
        orders \in {0, 1, 2, 4, 8, 16}}

OutlierSheets == {Block \o <<r>> : r \in OutlierRows}

\* the sequences of at most n elements of S
RECURSIVE SeqsUpTo(_, _)
SeqsUpTo(S, n) ==
    IF n = 0 THEN {<<>>}
    ELSE LET shorter == SeqsUpTo(S, n - 1)
         IN  shorter \cup {Append(t, x) : t \in shorter, x \in S}

\* rows around a block: both retailers, on the block's day and the next
MixedRows ==
    {SheetRow(2, "A", Ad, 2, 1, 2, 32, 4),
     SheetRow(1, "A", Ad, 0, 0, 8, 0, 0),
     SheetRow(2, "A", TV, 1, 1, 4, 4, 4),
     SheetRow(1, "B", TV, 9, 9, 64, 64, 1),
     SheetRow(2, "B", Ad, 0, 2, 2, 1, 2),
     SheetRow(1, "B", Ad, 0, 2, 2, 1, 2)}

MixedSheets ==
    UNION {{t \o Block, Block \o t} : t \in SeqsUpTo(MixedRows, MaxFree)}

\* rows of a small sheet: complete rows and rows that data preparation drops
SmallRows ==
    {SheetRow(1, "A", TV, 1, 1, 4, 4, 4),
     SheetRow(2, "A", Ad, 3, 0, 8, 4, 0),
     SheetRow(1, "B", TV, 0, 2, 2, 16, 2),
     SheetRow(2, "B", Ad, 1, 1, 3, 5, 2),
     With(SheetRow(1, "A", TV, 1, 1, 4, 4, 4), "Date", BadDate),
     With(SheetRow(1, "B", Ad, 1, 1, 4, 4, 4), "CTR", NaN),
     With(SheetRow(2, "A", Ad, 1, 1, 4, 4, 4), "Retailer", None)}

SmallSheets == SeqsUpTo(SmallRows, MaxRows)

\* spec.md section 8: 10 rows of retailer A with CTR 1, ..., 1, 100
ScenarioCTR ==
    [i \in 1..10 |-> SheetRow(i, "A", TV, IF i = 10 THEN 100 ELSE 1, 1, 4, 4, 4)]

\* 6 rows of retailer A with a CTR exactly 2 deviations above the mean (the
\* 6 among 1, 1, 1, 1, 2, 6) and a CVR exactly 2 deviations below it
BoundarySheet ==
    LET ctr == <<1, 1, 1, 1, 2, 6>>
        cvr == <<6, 6, 6, 6, 5, 1>>
    IN  [i \in 1..6 |-> SheetRow(i, "A", TV, ctr[i], cvr[i], 4, 4, 4)]

DetectSheets ==
    OutlierSheets \cup MixedSheets \cup SmallSheets \cup {ScenarioCTR, BoundarySheet}

\* the values of the points of a series
Levels == {0, 1, 9}

\* the sheet of a series xs: point i on day i, retailers alternating (so
\* that the grouped frame is out of date order), no order at level 0
SeriesSheet(xs) ==
    [i \in Idx(xs) |->
        SheetRow(i, IF i % 2 = 1 THEN "A" ELSE "B", TV,
                 xs[i], xs[i], xs[i], xs[i], IF xs[i] = 0 THEN 0 ELSE 1)]

\* spec.md section 8: a flat series of 14 identical values
FlatSeries == [i \in 1..14 |-> 1]

\* series longer than one window: a first window and any 3 more points
LongSeries == {<<9, 0, 1, 1, 1, 1, 1>> \o t : t \in [1..3 -> Levels]}

SeriesSheets ==
    {SeriesSheet(xs) : xs \in [1..MaxSeries -> Levels] \cup LongSeries \cup {FlatSeries}}

---------------------------------------------------------------------------
(* Specifications *)

\* a run with any sidebar selection, on blocks with free rows
Init == Uploaded(MixedSheets)

Next ==
    \/ DataPrep
    \/ DetectOutliers
    \/ LabelIssues
    \/ FilterAny
    \/ Tab1
    \/ Tab3
    \/ Tab4

Spec == Init /\ [][Next]_vars

\* the run up to the labelled frame, on every sheet of DetectSheets
InitDetect == Uploaded(DetectSheets)

NextDetect ==
    \/ DataPrep
    \/ DetectOutliers
    \/ LabelIssues

SpecDetect == InitDetect /\ [][NextDetect]_vars

\* a run with the sidebar untouched, on the series sheets
InitSmooth == Uploaded(SeriesSheets)

NextSmooth ==
    \/ DataPrep
    \/ DetectOutliers
    \/ LabelIssues
    \/ FilterDefault
    \/ Tab1
    \/ Tab3
    \/ Tab4

SpecSmooth == InitSmooth /\ [][NextSmooth]_vars

---------------------------------------------------------------------------
(* Statistics as spec.md states them, for the properties below *)

\* the rows of retailer r
RowsOf(rows, r) == SelectSeq(rows, LAMBDA row : row["Retailer"] = r)

\* the non-missing values of metric m over the rows of retailer r in df
ValuesOf(r, m) == NotNa(Column(RowsOf(df, r), m))

\* the mean of a non-empty sequence of values
MeanOf(vals) == RDiv(RSum(vals), Rat(Len(vals), 1))

\* the sample variance (sum(v^2) - sum(v)^2 / n) / (n - 1) of n >= 2 values
SampleVarOf(vals) ==
    LET n  == Len(vals)
        s  == RSum(vals)
        ss == RSum(Map(vals, RSquare))
    IN  RDiv(RSub(ss, RDiv(RSquare(s), Rat(n, 1))), Rat(n - 1, 1))

Metrics == Range(metric_cols)

Scored == pc \in {"detected", "labelled"}

---------------------------------------------------------------------------
(* C1 *)

\* C1: every record's flag for every tracked metric is High exactly when
\* z > 2, Low exactly when z < -2 and none otherwise, z being (value - mean)
\* / std with the mean and the sample standard deviation of the records of
\* the same retailer; the stored z-score is that z.
FlagsFollowZ ==
    Scored =>
        \A r \in Range(Retailers), m \in Metrics :
            LET rows == RowsOf(df, r)
                vals == NotNa(Column(rows, m))
                defined == Len(vals) >= 2 /\ SampleVarOf(vals).num > 0
                mean == MeanOf(vals)
                var  == SampleVarOf(vals)
                four == RMul(Rat(4, 1), var)
            IN  \A i \in Idx(rows) :
                    LET v == rows[i][m]
                        z == rows[i][ZCol[m]]
                        flag == rows[i][FlagCol[m]]
                    IN  IF IsNaN(v) \/ ~defined THEN flag = None
                        ELSE /\ z.kind = "fin"
                             /\ z.dev = RSub(v, mean)
                             /\ z.var = var
                             /\ flag = "High" <=>
                                   RLess(mean, v) /\ RLess(four, RSquare(RSub(v, mean)))
                             /\ flag = "Low" <=>
                                   RLess(v, mean) /\ RLess(four, RSquare(RSub(v, mean)))
                             /\ flag \in {"High", "Low", None}

\* C1: on the 10 rows with CTR 1, ..., 1, 100 the last row is flagged High on
\* CTR and no other row is flagged on CTR, and its signature contains "CTR+".
ScenarioFlagged ==
    (sheet = ScenarioCTR /\ Scored) =>
        /\ Len(df) = 10
        /\ df[10]["CTR"] = Rat(100, 1)
        /\ df[10]["CTR_flag"] = "High"
        /\ \A i \in 1..9 : df[i]["CTR_flag"] = None
        /\ pc = "labelled" => Contains(df[10]["Broken_Metrics"], <<"C", "T", "R", "+">>)

\* C1: a z-score of exactly 2 or exactly -2 gives no flag.
BoundaryUnflagged ==
    (sheet = BoundarySheet /\ Scored) =>
        /\ Len(df) = 6
        /\ RDiv(RSquare(df[6]["CTR_z"].dev), df[6]["CTR_z"].var) = Rat(4, 1)
        /\ RDiv(RSquare(df[6]["CVR_z"].dev), df[6]["CVR_z"].var) = Rat(4, 1)
        /\ df[6]["CTR_flag"] = None
        /\ df[6]["CVR_flag"] = None

\* C1: the flag of every record and metric is High exactly when z > 2, Low
\* exactly when z < -2 and none otherwise, both comparisons strict, z taken
\* over the records of the same retailer; in the 10-row scenario only the
\* last row is flagged High on CTR and its signature contains "CTR+".
C1_Flags == FlagsFollowZ /\ ScenarioFlagged /\ BoundaryUnflagged

\* the scenario sheet has been labelled and its last row is flagged
C1_Witness ==
    /\ sheet = ScenarioCTR
    /\ pc = "labelled"
    /\ df[10]["CTR_flag"] = "High"
    /\ Contains(df[10]["Broken_Metrics"], <<"C", "T", "R", "+">>)

---------------------------------------------------------------------------
(* C2 *)

\* the z-scores and flags of the rows
Scores(rows) ==
    Map(rows, LAMBDA row : [m \in Metrics |-> <<row[ZCol[m]], row[FlagCol[m]]>>])

\* a row of another retailer than r that a second sheet may hold as well
OtherRow(r) ==
    IF r = "A" THEN SheetRow(1, "B", TV, 9, 9, 64, 64, 1)
    ELSE SheetRow(2, "A", Ad, 2, 1, 2, 32, 4)

\* sheets with the same rows of retailer r as the uploaded one and other
\* rows of the other retailers: none, the same in reverse order before or
\* after, one more
SameFor(r) ==
    LET mine == RowsOf(sheet, r)
        rev  == [i \in Idx(sheet) |-> sheet[Len(sheet) + 1 - i]]
        others == SelectSeq(rev, LAMBDA row : row["Retailer"] # r)
    IN  {mine, others \o mine, mine \o others, Append(sheet, OtherRow(r))}

\* C2: the z-scores and flags of the records of a retailer are those of any
\* sheet that holds the same records of that retailer, whatever the values,
\* count or order of the records of the other retailers.
C2_Isolation ==
    pc = "detected" =>
        \A r \in Range(Retailers) :
            LET here == Scores(RowsOf(df, r))
            IN  here # <<>> =>
                    \A other \in SameFor(r) :
                        here = Scores(RowsOf(detect_outliers(Prepared(other)), r))

\* a flagged row of retailer A beside rows of retailer B
C2_Witness ==
    /\ pc = "detected"
    /\ \E i, j \in Idx(df) :
          /\ df[i]["Retailer"] = "A" /\ df[i]["CTR_flag"] = "High"
          /\ df[j]["Retailer"] = "B" /\ df[j]["CTR"] = Rat(9, 1)

---------------------------------------------------------------------------
(* C3 *)

\* the message of the first matching rule of spec.md 4.2 for the flags of row
RuleTable(row) ==
    IF row["CTR_flag"] = "High" /\ row["Revenue_flag"] = "Low" THEN Fix1
    ELSE IF row["ASP_flag"] = "High" /\ row["CPO_flag"] = "High" THEN Fix2
    ELSE IF row["CTR_flag"] = "Low" THEN Fix3
    ELSE IF row["CVR_flag"] = "Low" THEN Fix4
    ELSE IF \E m \in Metrics : row[FlagCol[m]] # None THEN Fix5
    ELSE None

\* C3: the suggested fix of every record is the message of the first rule of
\* the ordered rule table that its flags match, and null exactly when no
\* metric is flagged.
C3_FirstRuleWins ==
    pc = "labelled" =>
        \A i \in Idx(df) :
            /\ df[i]["Suggested_Fix"] = RuleTable(df[i])
            /\ df[i]["Suggested_Fix"] = None <=>
                  \A m \in Metrics : df[i][FlagCol[m]] = None

\* a record that matches rule 1 and rule 4 at once and gets rule 1's message
C3_Witness ==
    /\ pc = "labelled"
    /\ \E i \in Idx(df) :
          /\ df[i]["CTR_flag"] = "High"
          /\ df[i]["Revenue_flag"] = "Low"
          /\ df[i]["CVR_flag"] = "Low"
          /\ df[i]["Suggested_Fix"] = Fix1

---------------------------------------------------------------------------
(* C4 *)

\* the position of a token's metric in metric_cols, 0 if it is no token
MetricIndex(token) ==
    IF \E k \in Idx(metric_cols) :
           token \in {Tok(metric_cols[k], "+"), Tok(metric_cols[k], "-")}
    THEN CHOOSE k \in Idx(metric_cols) :
             token \in {Tok(metric_cols[k], "+"), Tok(metric_cols[k], "-")}
    ELSE 0

\* the comma-separated tokens of a signature
TokensOf(sig) == IF sig = <<>> THEN <<>> ELSE Split(sig, <<>>)

\* C4: a signature holds one token per flagged metric, "+" for High and "-"
\* for Low, none for an unflagged metric, in the order CTR, CVR, Revenue,
\* ASP, CPO; it is empty exactly when no metric is flagged, and the flagged
\* subset holds exactly the records with a non-empty signature.
C4_Signature ==
    pc = "labelled" =>
        /\ \A i \in Idx(df) :
              LET row == df[i]
                  tokens == TokensOf(row["Broken_Metrics"])
                  Count(t) == Cardinality({k \in Idx(tokens) : tokens[k] = t})
              IN  /\ \A m \in Metrics :
                        /\ Count(Tok(m, "+")) = IF row[FlagCol[m]] = "High" THEN 1 ELSE 0
                        /\ Count(Tok(m, "-")) = IF row[FlagCol[m]] = "Low" THEN 1 ELSE 0
                  /\ \A k \in Idx(tokens) : MetricIndex(tokens[k]) > 0
                  /\ \A k, l \in Idx(tokens) :
                        k < l => MetricIndex(tokens[k]) < MetricIndex(tokens[l])
                  /\ row["Broken_Metrics"] = <<>> <=>
                        \A m \in Metrics : row[FlagCol[m]] = None
                  /\ row["Needs_Review"] = (row["Broken_Metrics"] # <<>>)
        /\ flagged = SelectSeq(df, LAMBDA row : row["Broken_Metrics"] # <<>>)

\* a record flagged on a first, a middle and the last metric, among records
\* that are not flagged
C4_Witness ==
    /\ pc = "labelled"
    /\ \E i \in Idx(df) :
          /\ df[i]["CTR_flag"] = "Low"
          /\ df[i]["CVR_flag"] = None
          /\ df[i]["Revenue_flag"] = "High"
          /\ df[i]["ASP_flag"] = None
          /\ df[i]["CPO_flag"] = "High"
          /\ Len(flagged) = 1
          /\ Len(df) > 1

---------------------------------------------------------------------------
(* C5 *)

\* the z-scores of metric m over the rows of retailer r that have one
ZsOf(r, m) ==
    SelectSeq(Column(RowsOf(df, r), ZCol[m]), LAMBDA z : z.kind = "fin")

\* the sum of the squares of z-scores
SumSquares(zs) == RSum(Map(zs, LAMBDA z : RDiv(RSquare(z.dev), z.var)))

\* the sum of z-scores over one standard deviation, times that deviation
SumTimesStd(zs) == RSum(Map(zs, LAMBDA z : z.dev))

\* a retailer with at least 2 values of metric m, not all the same
Spread(r, m) ==
    LET vals == ValuesOf(r, m)
    IN  Len(vals) >= 2 /\ \E i, j \in Idx(vals) : vals[i] # vals[j]

\* C5 as stated: the z-scores of a retailer with a positive deviation have
\* mean 0 and population standard deviation 1: their sum is 0 and the sum of
\* their squares is the number n of values.
C5_PopulationUnit ==
    pc = "detected" =>
        \A r \in Range(Retailers), m \in Metrics :
            Spread(r, m) =>
                LET zs == ZsOf(r, m)
                IN  /\ Len(zs) = Len(ValuesOf(r, m))
                    /\ SumTimesStd(zs) = Rat(0, 1)
                    /\ SumSquares(zs) = Rat(Len(zs), 1)

\* C5 as amended: the z-scores share one deviation, their sum is 0 and the
\* sum of their squares is n - 1: their sample standard deviation is 1 and
\* their population standard deviation is sqrt((n - 1) / n).
C5_SampleUnit ==
    pc = "detected" =>
        \A r \in Range(Retailers), m \in Metrics :
            Spread(r, m) =>
                LET zs == ZsOf(r, m)
                IN  /\ Len(zs) = Len(ValuesOf(r, m))
                    /\ \A i, j \in Idx(zs) : zs[i].var = zs[j].var
                    /\ SumTimesStd(zs) = Rat(0, 1)
                    /\ SumSquares(zs) = Rat(Len(zs) - 1, 1)

\* a retailer with 6 values of ASP, one of them apart, and a record with
\* no ASP
C5_Witness ==
    /\ pc = "detected"
    /\ Spread("A", "ASP")
    /\ Len(ZsOf("A", "ASP")) >= 6
    /\ Len(ZsOf("A", "ASP")) < Len(RowsOf(df, "A"))

---------------------------------------------------------------------------
(* C7 *)

Derived == pc \in {"prepared", "detected", "labelled"}

\* C7: a record with no order has no ASP and no CPO, no z-score and no flag
\* for them; a record with orders has ASP = Revenue / Orders and CPO = Costs
\* / Orders, and its ASP and CPO z-scores are taken over the records of its
\* retailer that have a value; the run does not stop.
C7_ZeroOrders ==
    /\ pc = "error" => df = <<>>
    /\ Derived =>
          \A i \in Idx(df) :
              LET row == df[i]
              IN  IF row["Orders"].num = 0
                  THEN /\ IsNaN(row["ASP"]) /\ IsNaN(row["CPO"])
                       /\ Scored =>
                             \A m \in {"ASP", "CPO"} :
                                 /\ row[ZCol[m]].kind = "nan"
                                 /\ row[FlagCol[m]] = None
                  ELSE /\ ~IsNaN(row["ASP"]) /\ ~IsNaN(row["CPO"])
                       /\ RMul(row["ASP"], row["Orders"]) = row["Revenue"]
                       /\ RMul(row["CPO"], row["Orders"]) = row["Costs"]
                       /\ Scored =>
                             \A m \in {"ASP", "CPO"} :
                                 Spread(row["Retailer"], m) =>
                                     LET vals == ValuesOf(row["Retailer"], m)
                                     IN  /\ row[ZCol[m]].kind = "fin"
                                         /\ row[ZCol[m]].dev = RSub(row[m], MeanOf(vals))
                                         /\ row[ZCol[m]].var = SampleVarOf(vals)

\* a record with no order beside a record of its retailer flagged on ASP
C7_Witness ==
    /\ pc = "labelled"
    /\ \E i, j \in Idx(df) :
          /\ df[i]["Retailer"] = df[j]["Retailer"]
          /\ df[i]["Orders"].num = 0
          /\ df[i]["ASP_flag"] = None
          /\ df[j]["ASP_flag"] = "Low"
          /\ df[j]["CPO_flag"] = "High"

---------------------------------------------------------------------------
(* C8 *)

\* C8: the CSV of the download button has exactly the columns of the
\* drilldown table and one line per record of the filtered flagged subset,
\* in the order of the table.
C8_ExportColumns ==
    pc \in {"tab3", "done"} =>
        /\ csv.header = DrillCols
        /\ Len(csv.rows) = Len(f)
        /\ csv.rows = table3.rows

\* the part of C8 the export does satisfy: one line per record of the
\* filtered flagged subset, in its order, the ten columns among the others
C8_ExportRows ==
    pc \in {"tab3", "done"} =>
        /\ Len(csv.rows) = Len(f)
        /\ \A i \in Idx(f), k \in Idx(csv.header) : csv.rows[i][k] = f[i][csv.header[k]]
        /\ Range(DrillCols) \subseteq Range(csv.header)

---------------------------------------------------------------------------
(* C9 *)

---------------------------------------------------------------------------
(* C6 and C10 *)

\* the values of the 7 points that end at point i of the series
SevenAt(rows, i) == [k \in 1..7 |-> rows[i - 7 + k].x]

\* the median of an odd number of values: the value with at least half of
\* them on either side
MedianOf(vals) ==
    CHOOSE m \in Range(vals) :
        /\ 2 * Cardinality({k \in Idx(vals) : ~RLess(m, vals[k])}) > Len(vals)
        /\ 2 * Cardinality({k \in Idx(vals) : ~RLess(vals[k], m)}) > Len(vals)

\* the median absolute deviation from the median
MadOf(vals) ==
    LET m == MedianOf(vals)
    IN  MedianOf(Map(vals, LAMBDA v : RAbs(RSub(v, m))))

\* the rows of df with a value of metric m, as (Date, value) pairs
PointsOf(m) ==
    {<<df[i]["Date"], df[i][m]>> : i \in {k \in Idx(df) : ~IsNaN(df[k][m])}}

\* C6: the series is in date order without the missing values; its first 6
\* points have no rolling mean and no rolling MAD and are no anomaly; from
\* the 7th point on, the window is the 7 most recent points.
C6_FirstSix ==
    pc = "done" =>
        LET rows == ma_df.rows
        IN  /\ \A i \in Idx(rows) :
                  /\ <<rows[i].Date, rows[i].x>> \in PointsOf(ma_df.metric)
                  /\ i > 1 => RLess(rows[i - 1].Date, rows[i].Date)
            /\ Len(rows) = Cardinality(PointsOf(ma_df.metric))
            /\ \A i \in Idx(rows) :
                  IF i <= 6
                  THEN IsNaN(rows[i].MA) /\ IsNaN(rows[i].MAD) /\ ~rows[i].Anomaly
                  ELSE /\ ~IsNaN(rows[i].MA)
                       /\ RMul(rows[i].MA, Rat(7, 1)) = RSum(SevenAt(rows, i))
                       /\ rows[i].MAD = MadOf(SevenAt(rows, i))

\* a series of 9 points whose first 6 differ and whose 9th is an anomaly
C6_Witness ==
    /\ pc = "done"
    /\ Len(ma_df.rows) = 9
    /\ ma_df.rows[1].x # ma_df.rows[2].x
    /\ ma_df.rows[8].MA # ma_df.rows[9].MA
    /\ ma_df.rows[9].Anomaly

\* C10: a point with a full window is an anomaly exactly when its value is
\* more than 3 rolling MADs away from the rolling mean; with a rolling MAD
\* of 0, exactly when it differs from the rolling mean; a flat series of 14
\* values has no anomaly.
C10_Anomaly ==
    pc = "done" =>
        LET rows == ma_df.rows
        IN  /\ \A i \in Idx(rows) :
                  i >= 7 =>
                      LET w    == SevenAt(rows, i)
                          mean == RDiv(RSum(w), Rat(7, 1))
                          mad  == MadOf(w)
                          dev  == RAbs(RSub(rows[i].x, mean))
                      IN  /\ rows[i].Anomaly <=> RLess(RMul(Rat(3, 1), mad), dev)
                          /\ mad.num = 0 => (rows[i].Anomaly <=> rows[i].x # mean)
            /\ sheet = SeriesSheet(FlatSeries) =>
                  /\ Len(rows) = 14
                  /\ \A i \in Idx(rows) : ~rows[i].Anomaly

\* a rolling MAD of 0 at two points, one at the rolling mean and no
\* anomaly, one off the rolling mean and an anomaly
C10_Witness ==
    /\ pc = "done"
    /\ \E i, j \in Idx(ma_df.rows) :
          /\ ma_df.rows[i].MAD = Rat(0, 1) /\ ~ma_df.rows[i].Anomaly
          /\ ma_df.rows[j].MAD = Rat(0, 1) /\ ma_df.rows[j].Anomaly

\* the flat series of 14 values has been smoothed
C10_FlatWitness ==
    /\ pc = "done"
    /\ sheet = SeriesSheet(FlatSeries)
    /\ Len(ma_df.rows) = 14

=============================================================================
